---- MODULE Spec2Model ----
(***************************************************************************)
(* Query understanding and retrieval pipeline of the RAG finance chat.     *)
(*                                                                         *)
(* Strings are sequences of one-character strings, so that includes,       *)
(* match, slice, trim, padStart and template concatenation are computed    *)
(* character by character as the JavaScript source computes them.          *)
(* A Date is [dn, hours]: the local calendar day number and the local hour *)
(* of the instant; tzOffset is the environment's offset (local = UTC +     *)
(* tzOffset hours), which toISOString undoes.                              *)
(***************************************************************************)
EXTENDS Integers, Sequences, FiniteSets, TLC

VARIABLES
  pc,            \* position of the operation in progress
  tzOffset,      \* environment: hours to add to UTC to obtain local time
  expression,    \* parseTemporalExpression: argument
  currentDate,   \* reference date handed to the operation
  dateRange,     \* parseTemporalExpression: returned value
  caller,        \* entry point of the request: chat or chatWithMetadata
  userQuery,     \* userMessage / userQuery / query of the request
  target,        \* chat: {kind, min, max} of chooseTarget
  classification,\* how ollama.chat settled in extractIntent
  intent,        \* understandQuery: value returned by extractIntent
  filters,       \* ragChat: value returned by understandQuery
  queryEmbedding,\* ragChat: value returned by generateEmbedding
  chunks,        \* ragChat: value returned by searchChunks
  contextualQuery, \* ragChat: user content sent to the generative model
  ragResult,     \* chat: value returned by ragChat
  chatResult,    \* value returned by chat / chatWithMetadata
  error,         \* label of the error the request rejected with
  db,            \* vector-db.ts: module variable db
  table,         \* vector-db.ts: module variable table
  calls,         \* external calls issued by the request, in order
  inFlight,      \* external calls issued and not yet settled
  procs,         \* vector-db.ts: the calls of its functions in progress
  disk,          \* the table financial_chunks as the database holds it
  batchCall      \* embeddings.ts: the call of generateEmbeddingsBatch in progress

vars ==
  <<pc, tzOffset, expression, currentDate, dateRange, caller, userQuery, target,
    classification, intent, filters, queryEmbedding, chunks, contextualQuery,
    ragResult, chatResult, error, db, table, calls, inFlight, procs, disk, batchCall>>

\* ------------------------------------------------------------------ bounds
MinYear == 2023
MaxYear == 2025
MaxDays == 366
MaxTextLen == 5

\* ----------------------------------------------------------- string model
\* null and undefined: one-element sequences that no string equals (every
\* element of a string is a single character)
null == <<"NULL">>
undefined == <<"UNDEFINED">>

Whitespace == {" ", "\t", "\n"}
Digits == <<"0","1","2","3","4","5","6","7","8","9">>
DigitSet == {Digits[i] : i \in 1..10}

UpperCase == <<"A","B","C","D","E","F","G","H","I","J","K","L","M","N","O","P","Q","R","S","T","U","V","W","X","Y","Z","Á","É","Ê","Ú","Ç">>
LowerCase == <<"a","b","c","d","e","f","g","h","i","j","k","l","m","n","o","p","q","r","s","t","u","v","w","x","y","z","á","é","ê","ú","ç">>

toLowerCaseChar(c) ==
  IF \E i \in 1..Len(UpperCase) : UpperCase[i] = c
  THEN LowerCase[CHOOSE i \in 1..Len(UpperCase) : UpperCase[i] = c]
  ELSE c

toLowerCase(s) == [i \in 1..Len(s) |-> toLowerCaseChar(s[i])]

\* String.prototype.includes
includes(s, needle) ==
  \E i \in 1..(Len(s) - Len(needle) + 1) : SubSeq(s, i, i + Len(needle) - 1) = needle

\* String.prototype.slice(0, n)
slice0(s, n) == SubSeq(s, 1, IF n < Len(s) THEN n ELSE Len(s))

\* String.prototype.trimEnd: last is the index of the last character kept
trimEnd(s) ==
  LET last == CHOOSE i \in 0..Len(s) :
                /\ (i = 0 \/ s[i] \notin Whitespace)
                /\ \A j \in (i + 1)..Len(s) : s[j] \in Whitespace
  IN SubSeq(s, 1, last)

\* String.prototype.trimStart: first is the index of the first character kept
trimStart(s) ==
  LET first == CHOOSE i \in 1..(Len(s) + 1) :
                 /\ (i = Len(s) + 1 \/ s[i] \notin Whitespace)
                 /\ \A j \in 1..(i - 1) : s[j] \in Whitespace
  IN SubSeq(s, first, Len(s))

trim(s) == trimEnd(trimStart(s))

\* String(n) for a non-negative integer
RECURSIVE String(_)
String(n) == IF n < 10 THEN <<Digits[n + 1]>> ELSE String(n \div 10) \o <<Digits[(n % 10) + 1]>>

RECURSIVE padStart(_, _, _)
padStart(s, n, c) == IF Len(s) >= n THEN s ELSE padStart(<<c>> \o s, n, c)

DigitValue(c) == (CHOOSE i \in 1..10 : Digits[i] = c) - 1

\* parseInt(s, 10) on a string of decimal digits
RECURSIVE parseInt(_)
parseInt(s) ==
  IF Len(s) = 0 THEN 0
  ELSE 10 * parseInt(SubSeq(s, 1, Len(s) - 1)) + DigitValue(s[Len(s)])

\* ------------------------------------------------------------- Date model
IsLeap(y) == (y % 4 = 0 /\ y % 100 # 0) \/ y % 400 = 0

DaysBeforeYear(y) == 365 * (y - 1) + ((y - 1) \div 4) - ((y - 1) \div 100) + ((y - 1) \div 400)

CumDays == <<0, 31, 59, 90, 120, 151, 181, 212, 243, 273, 304, 334>>

DaysBeforeMonth(y, m) == CumDays[m] + (IF m > 2 /\ IsLeap(y) THEN 1 ELSE 0)

\* MakeDay of ECMAScript: day number of (year, 0-based month index, day of
\* month), where the month index and the day may lie outside their ranges.
MakeDay(y, monthIndex, d) ==
  LET yy == y + (monthIndex \div 12)
      mm == (monthIndex % 12) + 1
  IN DaysBeforeYear(yy) + DaysBeforeMonth(yy, mm) + d

\* Calendar fields of a day number.
Civil(n) ==
  CHOOSE c \in { [year |-> y, month |-> m, day |-> n - MakeDay(y, m - 1, 0)] :
                   y \in (IF n >= 0 THEN n \div 366 ELSE n \div 365)
                           ..((IF n >= 0 THEN n \div 365 ELSE n \div 366) + 2),
                   m \in 1..12 } :
    c.day >= 1 /\ n < MakeDay(c.year, c.month, 1)

\* new Date(year, monthIndex, day, hours)
NewDate(y, monthIndex, d, h) == [dn |-> MakeDay(y, monthIndex, d), hours |-> h]

getFullYear(date) == Civil(date.dn).year
getMonth(date) == Civil(date.dn).month - 1
getDate(date) == Civil(date.dn).day

\* Date.prototype.setDate: local day of month replaced, local time kept
setDate(date, d) ==
  [dn |-> MakeDay(getFullYear(date), getMonth(date), d), hours |-> date.hours]

\* day number of 1970-01-01, the origin of time values
EpochDay == MakeDay(1970, 0, 1)

\* a time value lies within 100,000,000 days of the origin (8.64e15 ms)
MaxTimeDays == 100000000

\* TimeClip: whether local day dn at hour hours is a time value (else NaN)
TimeClip(dn, hours, tz) ==
  \/ (dn - EpochDay > -MaxTimeDays /\ dn - EpochDay < MaxTimeDays)
  \/ (dn - EpochDay = -MaxTimeDays /\ hours - tz >= 0)
  \/ (dn - EpochDay = MaxTimeDays /\ hours - tz <= 0)

\* the year of toISOString: four digits, or a sign and six digits outside 0..9999
isoYear(y) ==
  IF y >= 0 /\ y <= 9999 THEN padStart(String(y), 4, "0")
  ELSE IF y < 0 THEN <<"-">> \o padStart(String(-y), 6, "0")
  ELSE <<"+">> \o padStart(String(y), 6, "0")

\* date.toISOString().split('T')[0]: the calendar date of the instant in UTC
toISODate(date, tz) ==
  LET utc == Civil(date.dn + ((date.hours - tz) \div 24))
  IN isoYear(utc.year) \o <<"-">> \o padStart(String(utc.month), 2, "0")
       \o <<"-">> \o padStart(String(utc.day), 2, "0")

\* ------------------------------------------------ parseTemporalExpression
TemporalLit ==
  [
    mes_passado |-> <<"m","ê","s"," ","p","a","s","s","a","d","o">>,
    mes_passado_a |-> <<"m","e","s"," ","p","a","s","s","a","d","o">>,
    mes_anterior |-> <<"m","ê","s"," ","a","n","t","e","r","i","o","r">>,
    este_mes |-> <<"e","s","t","e"," ","m","ê","s">>,
    este_mes_a |-> <<"e","s","t","e"," ","m","e","s">>,
    mes_atual |-> <<"m","ê","s"," ","a","t","u","a","l">>,
    ultimo |-> <<"ú","l","t","i","m","o">>,
    ultimo_a |-> <<"u","l","t","i","m","o">>,
    dia |-> <<"d","i","a">>,
    ultima_semana |-> <<"ú","l","t","i","m","a"," ","s","e","m","a","n","a">>,
    ultima_semana_a |-> <<"u","l","t","i","m","a"," ","s","e","m","a","n","a">>,
    carnaval |-> <<"c","a","r","n","a","v","a","l">>
  ]

monthNames ==
  <<
    [monthName |-> <<"j","a","n","e","i","r","o">>, monthNum |-> 1],
    [monthName |-> <<"f","e","v","e","r","e","i","r","o">>, monthNum |-> 2],
    [monthName |-> <<"m","a","r","ç","o">>, monthNum |-> 3],
    [monthName |-> <<"m","a","r","c","o">>, monthNum |-> 3],
    [monthName |-> <<"a","b","r","i","l">>, monthNum |-> 4],
    [monthName |-> <<"m","a","i","o">>, monthNum |-> 5],
    [monthName |-> <<"j","u","n","h","o">>, monthNum |-> 6],
    [monthName |-> <<"j","u","l","h","o">>, monthNum |-> 7],
    [monthName |-> <<"a","g","o","s","t","o">>, monthNum |-> 8],
    [monthName |-> <<"s","e","t","e","m","b","r","o">>, monthNum |-> 9],
    [monthName |-> <<"o","u","t","u","b","r","o">>, monthNum |-> 10],
    [monthName |-> <<"n","o","v","e","m","b","r","o">>, monthNum |-> 11],
    [monthName |-> <<"d","e","z","e","m","b","r","o">>, monthNum |-> 12]
  >>

\* Last index k >= from - 1 such that s[from..k] lies in class (greedy x+).
SpanEnd(s, from, class) ==
  CHOOSE k \in (from - 1)..Len(s) :
    /\ \A i \in from..k : s[i] \in class
    /\ (k = Len(s) \/ s[k + 1] \notin class)

\* One attempt of /<stem>s?\s+(\d+)\s+dia/ at position i; the capture or null.
daysMatchAt(s, stem, i) ==
  LET j0 == i + Len(stem)
      j1 == IF j0 <= Len(s) /\ s[j0] = "s" THEN j0 + 1 ELSE j0
      w1 == SpanEnd(s, j1, Whitespace)
      d1 == SpanEnd(s, w1 + 1, DigitSet)
      w2 == SpanEnd(s, d1 + 1, Whitespace)
  IN IF /\ j0 - 1 <= Len(s)
        /\ SubSeq(s, i, j0 - 1) = stem
        /\ w1 >= j1
        /\ d1 >= w1 + 1
        /\ w2 >= d1 + 1
        /\ w2 + 3 <= Len(s)
        /\ SubSeq(s, w2 + 1, w2 + 3) = TemporalLit.dia
     THEN SubSeq(s, w1 + 1, d1)
     ELSE null

\* s.match(/<stem>s?\s+(\d+)\s+dia/i)[1] of the leftmost match, or null.
daysRegex(s, stem) ==
  LET hits == {i \in 1..Len(s) : daysMatchAt(s, stem, i) # null}
  IN IF hits = {} THEN null
     ELSE daysMatchAt(s, stem, CHOOSE i \in hits : \A j \in hits : i <= j)

\* lower.match(/últimos?.../i) || lower.match(/ultimos?.../i)
daysMatch(lower) ==
  IF daysRegex(lower, TemporalLit.ultimo) # null
  THEN daysRegex(lower, TemporalLit.ultimo)
  ELSE daysRegex(lower, TemporalLit.ultimo_a)

\* `${y}-${String(m).padStart(2,'0')}-${String(d).padStart(2,'0')}`
dateTemplate(y, m, d) ==
  String(y) \o <<"-">> \o padStart(String(m), 2, "0") \o <<"-">> \o padStart(String(d), 2, "0")

\* `${y}-${String(m).padStart(2,'0')}-01`
firstDayTemplate(y, m) ==
  String(y) \o <<"-">> \o padStart(String(m), 2, "0") \o <<"-","0","1">>

\* new Date(y, m, 0).getDate() with m the 1-based month
lastDayOf(y, m) == getDate(NewDate(y, m, 0, 0))

lastMonthOf(month) == IF month = 1 THEN 12 ELSE month - 1

\* mutant: the year is not rolled back when the reference month is January
lastMonthYearOf_noWrap(year, month) == year

lastMonthYearOf(year, month) == IF month = 1 THEN year - 1 ELSE year

\* for (const [monthName, monthNum] of Object.entries(monthNames)): index of
\* the first entry, in insertion order, whose name occurs in lower; 0 if none
RECURSIVE monthNameScan(_, _)
monthNameScan(lower, k) ==
  IF k > Len(monthNames) THEN 0
  ELSE IF includes(lower, monthNames[k].monthName) THEN k
       ELSE monthNameScan(lower, k + 1)

\* toISOString of an Invalid Date
RangeError == "RangeError"

\* a property read of null, or toLowerCase called on a value that is no string
TypeError == "TypeError"

\* an outcome that is a thrown error rather than a value
Raised(r) == "threw" \in DOMAIN r

\* start.setDate(start.getDate() - days), then toISOString of start and end;
\* setDate leaves an Invalid Date when the new time value is out of range
lastDaysRange(date, days, tz) ==
  IF ~TimeClip(MakeDay(getFullYear(date), getMonth(date), getDate(date) - days),
               date.hours, tz)
  THEN [threw |-> TRUE, error |-> RangeError]
  ELSE [start |-> toISODate(setDate(date, getDate(date) - days), tz),
        end |-> toISODate(date, tz)]

parseTemporalExpression(expr, date, tz) ==
  LET lower == trim(toLowerCase(expr))
      year == getFullYear(date)
      month == getMonth(date) + 1
      lastMonth == lastMonthOf(month)
      lastMonthYear == lastMonthYearOf(year, month)
      dm == daysMatch(lower)
      mk == monthNameScan(lower, 1)
  IN IF \/ includes(lower, TemporalLit.mes_passado)
        \/ includes(lower, TemporalLit.mes_passado_a)
        \/ includes(lower, TemporalLit.mes_anterior)
     THEN [start |-> firstDayTemplate(lastMonthYear, lastMonth),
           end |-> dateTemplate(lastMonthYear, lastMonth, lastDayOf(lastMonthYear, lastMonth))]
     ELSE IF \/ includes(lower, TemporalLit.este_mes)
             \/ includes(lower, TemporalLit.este_mes_a)
             \/ includes(lower, TemporalLit.mes_atual)
     THEN [start |-> firstDayTemplate(year, month),
           end |-> dateTemplate(year, month, lastDayOf(year, month))]
     ELSE IF dm # null
     THEN lastDaysRange(date, parseInt(dm), tz)
     ELSE IF \/ includes(lower, TemporalLit.ultima_semana)
             \/ includes(lower, TemporalLit.ultima_semana_a)
     THEN lastDaysRange(date, 7, tz)
     ELSE IF mk # 0
     THEN [start |-> firstDayTemplate(year, monthNames[mk].monthNum),
           end |-> dateTemplate(year, monthNames[mk].monthNum,
                                lastDayOf(year, monthNames[mk].monthNum))]
     ELSE IF includes(lower, TemporalLit.carnaval)
     THEN [start |-> String(year) \o <<"-","0","2","-","1","0">>,
           end |-> String(year) \o <<"-","0","2","-","1","3">>]
     ELSE [start |-> null, end |-> null]

\* ------------------------------------------------------ JavaScript values
\* A value read from a parsed JSON object keeps its JavaScript type.
JsString(s) == [t |-> "string", v |-> s]
JsBoolean(b) == [t |-> "boolean", v |-> b]
JsNumber(n) == [t |-> "number", v |-> n]
JsArray(a) == [t |-> "array", v |-> a]
JsUndefined == [t |-> "undefined"]
JsNull == [t |-> "null"]

\* ToBoolean, as applied by && and if
Truthy(x) ==
  CASE x.t = "string" -> Len(x.v) > 0
    [] x.t = "boolean" -> x.v
    [] x.t = "number" -> x.v # 0
    [] x.t = "array" -> TRUE
    [] OTHER -> FALSE

\* ToString, as applied by a template literal
TemplateString(x) ==
  CASE x.t = "string" -> x.v
    [] x.t = "boolean" -> IF x.v THEN <<"t","r","u","e">> ELSE <<"f","a","l","s","e">>
    [] x.t = "number" -> String(x.v)
    [] x.t = "null" -> <<"n","u","l","l">>
    [] OTHER -> <<"u","n","d","e","f","i","n","e","d">>

\* --------------------------------------------------- query understanding
QueryLit ==
  [
    quanto |-> <<"q","u","a","n","t","o">>,
    gastei |-> <<"g","a","s","t","e","i">>,
    recebi |-> <<"r","e","c","e","b","i">>,
    pagarei |-> <<"p","a","g","a","r","e","i">>,
    resumo |-> <<"r","e","s","u","m","o">>,
    saude_financeira |-> <<"s","a","ú","d","e"," ","f","i","n","a","n","c","e","i","r","a">>,
    como_esta |-> <<"c","o","m","o"," ","e","s","t","á">>,
    mes_passado |-> <<"m","ê","s"," ","p","a","s","s","a","d","o">>,
    mes_passado_a |-> <<"m","e","s"," ","p","a","s","s","a","d","o">>,
    ultimos |-> <<"ú","l","t","i","m","o","s">>,
    ultimos_a |-> <<"u","l","t","i","m","o","s">>,
    dias |-> <<" ","d","i","a","s">>,
    transacional |-> <<"t","r","a","n","s","a","c","i","o","n","a","l">>,
    insight |-> <<"i","n","s","i","g","h","t">>,
    educacao |-> <<"e","d","u","c","a","c","a","o">>,
    type_eq |-> <<"t","y","p","e"," ","="," ","'">>,
    quote |-> <<"'">>,
    date_ge |-> <<"d","a","t","e"," ",">","="," ","'">>,
    date_le |-> <<"d","a","t","e"," ","<","="," ","'">>,
    and |-> <<" ","A","N","D"," ">>
  ]

\* alternatives of /mês|mes|semana|dia|abril|março|fevereiro|janeiro|carnaval|último|ultimo/
hasTemporalWords ==
  { <<"m","ê","s">>,
    <<"m","e","s">>,
    <<"s","e","m","a","n","a">>,
    <<"d","i","a">>,
    <<"a","b","r","i","l">>,
    <<"m","a","r","ç","o">>,
    <<"f","e","v","e","r","e","i","r","o">>,
    <<"j","a","n","e","i","r","o">>,
    <<"c","a","r","n","a","v","a","l">>,
    <<"ú","l","t","i","m","o">>,
    <<"u","l","t","i","m","o">> }

\* query.split(/\s+/).filter(w => w.length > 3): the maximal runs of
\* non-whitespace characters longer than 3, in order (the empty strings that
\* split yields at the ends of the query are dropped by the filter)
RECURSIVE keywordsFrom(_, _)
keywordsFrom(s, from) ==
  IF from > Len(s) THEN <<>>
  ELSE IF s[from] \in Whitespace THEN keywordsFrom(s, from + 1)
  ELSE LET e == SpanEnd(s, from, {s[i] : i \in 1..Len(s)} \ Whitespace)
       IN (IF e - from + 1 > 3 THEN <<SubSeq(s, from, e)>> ELSE <<>>)
            \o keywordsFrom(s, e + 1)

fallbackType(lower) ==
  IF \/ includes(lower, QueryLit.quanto)
     \/ includes(lower, QueryLit.gastei)
     \/ includes(lower, QueryLit.recebi)
     \/ includes(lower, QueryLit.pagarei)
  THEN QueryLit.transacional
  ELSE IF \/ includes(lower, QueryLit.resumo)
          \/ includes(lower, QueryLit.saude_financeira)
          \/ includes(lower, QueryLit.como_esta)
  THEN QueryLit.insight
  ELSE QueryLit.educacao

fallbackTemporalExpression(lower, hasTemporal) ==
  IF ~hasTemporal THEN JsUndefined
  ELSE IF includes(lower, QueryLit.mes_passado) \/ includes(lower, QueryLit.mes_passado_a)
  THEN JsString(QueryLit.mes_passado)
  ELSE IF (includes(lower, QueryLit.ultimos) \/ includes(lower, QueryLit.ultimos_a))
          /\ daysMatch(lower) # null
  THEN JsString(QueryLit.ultimos \o <<" ">> \o daysMatch(lower) \o QueryLit.dias)
  ELSE JsUndefined

fallbackIntentExtraction(query) ==
  LET lower == toLowerCase(query)
      hasTemporal == \E w \in hasTemporalWords : includes(lower, w)
  IN [ t |-> "object",
       type |-> JsString(fallbackType(lower)),
       hasTemporalFilter |-> JsBoolean(hasTemporal),
       temporalExpression |-> fallbackTemporalExpression(lower, hasTemporal),
       keywords |-> JsArray(keywordsFrom(query, 1)) ]

\* content.match(/\{[\s\S]*\}/): from the first "{" to the last "}" after it
jsonMatch(content) ==
  LET opens == {i \in 1..Len(content) : content[i] = "{"}
      first == CHOOSE i \in opens : \A j \in opens : i <= j
      closes == {i \in 1..Len(content) : content[i] = "}" /\ i > first}
      last == CHOOSE i \in closes : \A j \in closes : j <= i
  IN IF opens = {} THEN null
     ELSE IF closes = {} THEN null
     ELSE SubSeq(content, first, last)

\* The member lists the classification service writes between braces.  An
\* element of a content string that is not a single character stands for the
\* text of such a member list (which itself contains no brace).
Members ==
  [ wellFormed |->
      [ t |-> "object", type |-> JsString(QueryLit.transacional),
        hasTemporalFilter |-> JsBoolean(TRUE),
        temporalExpression |-> JsString(QueryLit.mes_passado),
        keywords |-> JsArray(<<QueryLit.gastei>>) ],
    noTemporal |->
      [ t |-> "object", type |-> JsString(QueryLit.educacao),
        hasTemporalFilter |-> JsBoolean(FALSE),
        temporalExpression |-> JsUndefined,
        keywords |-> JsArray(<<>>) ],
    unresolved |->
      [ t |-> "object", type |-> JsString(QueryLit.insight),
        hasTemporalFilter |-> JsBoolean(TRUE),
        temporalExpression |-> JsString(<<"o","n","t","e","m">>),
        keywords |-> JsArray(<<>>) ],
    otherCategory |->
      [ t |-> "object", type |-> JsString(<<"o","u","t","r","o">>),
        hasTemporalFilter |-> JsBoolean(FALSE),
        temporalExpression |-> JsUndefined,
        keywords |-> JsArray(<<>>) ],
    onlyKeywords |->
      [ t |-> "object", type |-> JsUndefined,
        hasTemporalFilter |-> JsUndefined,
        temporalExpression |-> JsUndefined,
        keywords |-> JsArray(<<QueryLit.resumo>>) ],
    phraseWithoutFlag |->
      [ t |-> "object", type |-> JsString(QueryLit.insight),
        hasTemporalFilter |-> JsBoolean(FALSE),
        temporalExpression |-> JsString(<<"a","b","r","i","l">>),
        keywords |-> JsArray(<<>>) ],
    flagWithoutPhrase |->
      [ t |-> "object", type |-> JsString(QueryLit.transacional),
        hasTemporalFilter |-> JsBoolean(TRUE),
        temporalExpression |-> JsUndefined,
        keywords |-> JsArray(<<>>) ],
    numericPhrase |->
      [ t |-> "object", type |-> JsString(QueryLit.transacional),
        hasTemporalFilter |-> JsBoolean(TRUE),
        temporalExpression |-> JsNumber(30),
        keywords |-> JsArray(<<>>) ],
    quotedType |->
      [ t |-> "object",
        type |-> JsString(<<"t","r","a","n","s","a","c","i","o","n","a","l","'"," ","A","N","D"," ","d","a","t","e"," ",">","="," ","'","2","0","2","4","-","0","1","-","0","1">>),
        hasTemporalFilter |-> JsBoolean(FALSE),
        temporalExpression |-> JsUndefined,
        keywords |-> JsArray(<<>>) ] ]

EmptyObject ==
  [ t |-> "object", type |-> JsUndefined, hasTemporalFilter |-> JsUndefined,
    temporalExpression |-> JsUndefined, keywords |-> JsUndefined ]

\* JSON.parse(jsonStr): [ok |-> FALSE] stands for the SyntaxError it throws
JSONparse(jsonStr) ==
  LET text == trim(jsonStr)
  IN IF text = <<"n","u","l","l">> THEN [ok |-> TRUE, value |-> JsNull]
     ELSE IF text = <<"{","}">> THEN [ok |-> TRUE, value |-> EmptyObject]
     ELSE IF /\ Len(text) = 3
             /\ text[1] = "{"
             /\ text[3] = "}"
             /\ text[2] \in DOMAIN Members
     THEN [ok |-> TRUE, value |-> Members[text[2]]]
     ELSE [ok |-> FALSE]

\* try-block of extractIntent once ollama.chat has resolved with content
parseIntent(content) ==
  JSONparse(IF jsonMatch(content) # null THEN jsonMatch(content) ELSE content)

\* mutant: no catch clause, a failure of ollama.chat or JSON.parse rejects
extractIntent_uncaught(query, chat) ==
  IF chat.threw THEN [threw |-> TRUE]
  ELSE IF parseIntent(chat.content).ok
  THEN [threw |-> FALSE, value |-> parseIntent(chat.content).value]
  ELSE [threw |-> TRUE]

\* extractIntent: chat is the outcome of ollama.chat, threw or content.
\* The catch clause covers the call and the parse, so the promise of
\* extractIntent is never rejected: threw is FALSE in every branch.
extractIntent(query, chat) ==
  IF ~chat.threw /\ parseIntent(chat.content).ok
  THEN [threw |-> FALSE, value |-> parseIntent(chat.content).value]
  ELSE [threw |-> FALSE, value |-> fallbackIntentExtraction(query)]

RECURSIVE join(_, _)
join(parts, sep) ==
  IF Len(parts) = 0 THEN <<>>
  ELSE IF Len(parts) = 1 THEN parts[1]
  ELSE parts[1] \o sep \o join(Tail(parts), sep)

\* if (dateRange.start && dateRange.end): the two conditions on the date column
dateConditions(range) ==
  IF /\ range.start # null /\ Len(range.start) > 0
     /\ range.end # null /\ Len(range.end) > 0
  THEN << QueryLit.date_ge \o range.start \o QueryLit.quote,
          QueryLit.date_le \o range.end \o QueryLit.quote >>
  ELSE <<>>

\* buildLanceDBFilters once parseTemporalExpression has returned range or raised
buildFilters(obj, range) ==
  IF Raised(range) THEN [threw |-> TRUE, error |-> range.error]
  ELSE [ threw |-> FALSE,
         whereClause |->
           join(<<QueryLit.type_eq \o TemplateString(obj.type) \o QueryLit.quote>>
                  \o dateConditions(range),
                QueryLit.and),
         searchKeywords |-> obj.keywords ]

\* buildLanceDBFilters; threw stands for the TypeError raised by reading a
\* property of null or by calling toLowerCase on a non-string, and for the
\* RangeError that parseTemporalExpression lets through
buildLanceDBFilters(obj, date, tz) ==
  IF obj.t = "null" THEN [threw |-> TRUE, error |-> TypeError]
  ELSE IF Truthy(obj.hasTemporalFilter) /\ Truthy(obj.temporalExpression)
  THEN IF obj.temporalExpression.t # "string"
       THEN [threw |-> TRUE, error |-> TypeError]
       ELSE buildFilters(obj, parseTemporalExpression(obj.temporalExpression.v, date, tz))
  ELSE buildFilters(obj, [start |-> null, end |-> null])

\* ------------------------------------------------------------ rag-chat.ts
\* mutant: a text without cue gets the range of an insight
chooseTarget_insightDefault(q) ==
  LET lower == toLowerCase(q)
  IN IF \/ includes(lower, QueryLit.quanto)
        \/ includes(lower, QueryLit.gastei)
        \/ includes(lower, QueryLit.pagarei)
     THEN [kind |-> QueryLit.transacional, min |-> 0, max |-> 140]
     ELSE [kind |-> QueryLit.insight, min |-> 250, max |-> 500]

chooseTarget(q) ==
  LET lower == toLowerCase(q)
  IN IF \/ includes(lower, QueryLit.quanto)
        \/ includes(lower, QueryLit.gastei)
        \/ includes(lower, QueryLit.pagarei)
     THEN [kind |-> QueryLit.transacional, min |-> 0, max |-> 140]
     ELSE IF \/ includes(lower, QueryLit.como_esta)
             \/ includes(lower, QueryLit.saude_financeira)
             \/ includes(lower, QueryLit.resumo)
     THEN [kind |-> QueryLit.insight, min |-> 250, max |-> 500]
     ELSE [kind |-> QueryLit.educacao, min |-> 200, max |-> 500]

\* mutant: the cut keeps one character too many
trimToRange_offByOne(text, min, max) ==
  LET clean == trim(text)
  IN IF Len(clean) > max THEN trimEnd(slice0(clean, max + 1)) ELSE clean

\* mutant: the cut is not followed by trimEnd
trimToRange_keepTail(text, min, max) ==
  LET clean == trim(text)
  IN IF Len(clean) > max THEN slice0(clean, max) ELSE clean

trimToRange(text, min, max) ==
  LET clean == trim(text)
  IN IF Len(clean) > max THEN trimEnd(slice0(clean, max))
     ELSE IF Len(clean) < min THEN clean
     ELSE clean

\* -------------------------------------------------------- rag-pipeline.ts
PipelineLit ==
  [
    contexto |-> <<"[","C","o","n","t","e","x","t","o"," ">>,
    contexto_end |-> <<"]","\n">>,
    tipo |-> <<"T","i","p","o",":"," ">>,
    data |-> <<"D","a","t","a",":"," ">>,
    valor |-> <<"V","a","l","o","r",":"," ","R","$"," ">>,
    fonte |-> <<"F","o","n","t","e",":"," ">>,
    conteudo |-> <<"C","o","n","t","e","ú","d","o",":"," ">>,
    nl |-> <<"\n">>,
    sep |-> <<"\n","-","-","-","\n">>,
    head |-> <<"Q","u","e","r","y"," ","d","o"," ","u","s","u","á","r","i","o",":"," ">>,
    mid |-> <<"\n","\n","C","o","n","t","e","x","t","o","s"," ","r","e","l","e","v","a","n","t","e","s"," ","e","n","c","o","n","t","r","a","d","o","s",":","\n">>,
    tail |-> <<"\n","\n","B","a","s","e","a","d","o"," ","n","o","s"," ","c","o","n","t","e","x","t","o","s"," ","a","c","i","m","a",","," ","r","e","s","p","o","n","d","a"," ","à"," ","q","u","e","r","y"," ","d","o"," ","u","s","u","á","r","i","o"," ","d","e"," ","f","o","r","m","a"," ","e","s","p","e","c","í","f","i","c","a"," ","e"," ","a","s","s","e","r","t","i","v","a",".">>,
    type_transacional |-> <<"t","y","p","e"," ","="," ","'","t","r","a","n","s","a","c","i","o","n","a","l","'">>,
    type_insight |-> <<"t","y","p","e"," ","="," ","'","i","n","s","i","g","h","t","'">>
  ]

\* amount.toFixed(2); an amount is held as its number of cents
toFixed2(cents) ==
  String(cents \div 100) \o <<".">> \o padStart(String(cents % 100), 2, "0")

contextPart(chunk, index) ==
  PipelineLit.contexto \o String(index) \o PipelineLit.contexto_end
    \o PipelineLit.tipo \o chunk.type \o PipelineLit.nl
    \o PipelineLit.data \o chunk.date \o PipelineLit.nl
    \o (IF chunk.amount.t # "undefined"
        THEN PipelineLit.valor \o toFixed2(chunk.amount.v) \o PipelineLit.nl
        ELSE <<>>)
    \o PipelineLit.fonte \o chunk.source \o PipelineLit.nl
    \o PipelineLit.conteudo \o chunk.text \o PipelineLit.nl

\* mutant: the grounding block is emitted even when nothing was found
buildContextualQuery_always(query, found) ==
  PipelineLit.head \o query \o PipelineLit.mid
    \o join([i \in 1..Len(found) |-> contextPart(found[i], i)], PipelineLit.sep)
    \o PipelineLit.tail

buildContextualQuery(query, found) ==
  IF Len(found) = 0 THEN query
  ELSE PipelineLit.head \o query \o PipelineLit.mid
         \o join([i \in 1..Len(found) |-> contextPart(found[i], i)], PipelineLit.sep)
         \o PipelineLit.tail

extractQueryType(whereClause) ==
  IF includes(whereClause, PipelineLit.type_transacional) THEN QueryLit.transacional
  ELSE IF includes(whereClause, PipelineLit.type_insight) THEN QueryLit.insight
  ELSE QueryLit.educacao

\* error labels: the prefix each stage puts on the error it rethrows
EmbeddingError == "Falha ao gerar embedding"
InitError == "Falha ao inicializar LanceDB"
SearchError == "Falha ao buscar chunks"
GenerationError == "Falha ao gerar resposta"
\* an error of ollama.chat or JSON.parse that left extractIntent uncaught
ClassificationError == "ClassificationError"

\* top-k handed to searchChunks by ragChat
TopK == 5

\* ------------------------------------------------------------ input sets
Years == (MinYear..MaxYear) \cup {2000, 2100}
Hours == {1, 22}
TzOffsets == {-3, 0, 9}
DayCounts == {0, 1, 7, 30, MaxDays}

TrueDaysInMonth(y, m) ==
  IF m = 2 THEN (IF IsLeap(y) THEN 29 ELSE 28)
  ELSE IF m \in {4, 6, 9, 11} THEN 30 ELSE 31

ReferenceDates ==
  {NewDate(y, m - 1, d, h) :
     y \in Years, m \in 1..12, d \in {1, 15, 28}, h \in Hours}
  \cup {NewDate(y, m - 1, TrueDaysInMonth(y, m), h) : y \in Years, m \in 1..12, h \in Hours}

lastNDays(n) == <<"ú","l","t","i","m","o","s"," ">> \o String(n) \o <<" ","d","i","a","s">>

LastMonthPhrases ==
  { <<"m","ê","s"," ","p","a","s","s","a","d","o">>,
    <<"M","e","s"," ","P","a","s","s","a","d","o">>,
    <<" ","n","o"," ","m","ê","s"," ","a","n","t","e","r","i","o","r"," ">> }

\* phrases that match more than one pattern
OverlappingPhrases ==
  { <<"m","ê","s"," ","p","a","s","s","a","d","o"," ","e"," ","e","s","t","e"," ","m","ê","s">>,
    <<"e","s","t","e"," ","m","ê","s",","," ","ú","l","t","i","m","o","s"," ","7"," ","d","i","a","s">>,
    <<"ú","l","t","i","m","o","s"," ","3","0"," ","d","i","a","s",","," ","ú","l","t","i","m","a"," ","s","e","m","a","n","a">>,
    <<"ú","l","t","i","m","a"," ","s","e","m","a","n","a"," ","d","e"," ","a","b","r","i","l">>,
    <<"a","b","r","i","l",","," ","c","a","r","n","a","v","a","l">>,
    <<"c","a","r","n","a","v","a","l"," ","d","o"," ","m","ê","s"," ","p","a","s","s","a","d","o">>,
    <<"ú","l","t","i","m","o","s"," ","3","0"," ","d","i","a","s"," ","d","e"," ","a","b","r","i","l">> }

\* phrases whose day count reaches before year 0 and beyond the first time value
FarPastPhrases ==
  { <<"ú","l","t","i","m","o","s"," ","8","0","0","0","0","0"," ","d","i","a","s">>,
    <<"ú","l","t","i","m","o","s"," ","2","0","0","0","0","0","0","0","0"," ","d","i","a","s">> }

Expressions ==
  LastMonthPhrases
  \cup {lastNDays(n) : n \in DayCounts}
  \cup OverlappingPhrases
  \cup FarPastPhrases
  \cup { <<"e","s","t","e"," ","m","ê","s">>,
         <<"ú","l","t","i","m","a"," ","s","e","m","a","n","a">>,
         <<"a","b","r","i","l">>,
         <<"c","a","r","n","a","v","a","l">>,
         <<"o","n","t","e","m">> }

UserQueries ==
  { <<"Q","u","a","n","t","o"," ","g","a","s","t","e","i"," ","m","ê","s"," ","p","a","s","s","a","d","o","?">>,
    <<"G","a","s","t","o","s"," ","n","o"," ","s","u","p","e","r","m","e","r","c","a","d","o"," ","e","s","t","e"," ","m","ê","s">>,
    <<"R","e","s","u","m","o"," ","d","a"," ","m","i","n","h","a"," ","s","a","ú","d","e"," ","f","i","n","a","n","c","e","i","r","a">>,
    <<"C","o","m","o"," ","p","o","s","s","o"," ","i","n","v","e","s","t","i","r"," ","m","e","u"," ","d","i","n","h","e","i","r","o","?">>,
    <<"Q","u","a","n","t","o"," ","r","e","c","e","b","i"," ","n","o","s"," ","ú","l","t","i","m","o","s"," ","3","0"," ","d","i","a","s">>,
    <<"O"," ","q","u","e"," ","é"," ","C","D","I","?">>,
    <<"g","a","s","t","o","s"," ","d","o","s"," ","u","l","t","i","m","o","s"," ","d","i","a","s">>,
    <<"R","e","c","e","b","i"," ","m","e","u"," ","s","a","l","á","r","i","o","?">>,
    <<"O"," ","q","u","e"," ","r","e","c","e","b","i"," ","m","ê","s"," ","p","a","s","s","a","d","o","?">> }

\* reference dates of the requests: 2024-04-15 22h and 2024-01-31 01h
RequestDates == {NewDate(2024, 3, 15, 22), NewDate(2024, 0, 31, 1)}

\* what the classification service may answer
ClassifierContents ==
  { <<"{", m, "}">> : m \in DOMAIN Members }
  \cup { <<"~","~","~","j","s","o","n","\n","{","wellFormed","}","\n","~","~","~">>,
         <<"{","wellFormed","}"," ","o","b","s",":"," ","{","x","}">>,
         <<"{","wellFormed">>,
         <<"{","}">>,
         <<"n","u","l","l">>,
         <<"d","e","s","c","u","l","p","e">> }

\* what the embedding provider may answer (an empty vector included)
Embeddings == { <<>>, <<1, 2>> }

chunkTx ==
  [ id |-> <<"t","x","-","0","0","1">>,
    text |-> <<"G","a","s","t","o"," ","c","o","m"," ","s","u","p","e","r","m","e","r","c","a","d","o">>,
    type |-> <<"t","r","a","n","s","a","c","i","o","n","a","l">>,
    date |-> <<"2","0","2","4","-","0","3","-","0","5">>,
    source |-> <<"e","x","t","r","a","t","o","-","b","a","n","c","a","r","i","o">>,
    amount |-> JsNumber(45000) ]

chunkInsight ==
  [ id |-> <<"i","n","s","i","g","h","t","-","0","0","1">>,
    text |-> <<"A","n","á","l","i","s","e"," ","f","i","n","a","n","c","e","i","r","a">>,
    type |-> <<"i","n","s","i","g","h","t">>,
    date |-> <<"2","0","2","4","-","0","3","-","3","1">>,
    source |-> <<"a","n","a","l","i","s","e">>,
    amount |-> JsUndefined ]

\* what a query of an existing table may return (at most TopK rows)
SearchResults == { r \in { <<>>, <<chunkTx>>, <<chunkTx, chunkInsight>> } : Len(r) <= TopK }

Fill(n, blanks) == [i \in 1..n |-> IF i \in blanks THEN " " ELSE "x"]

\* lengths of generated answers around the two maxima of chooseTarget
GeneratedContents ==
  { <<"N","ã","o"," ","s","e","i">>,
    <<" ","\n","N","ã","o"," ","s","e","i"," ","\n">>,
    Fill(140, {}), Fill(141, {}), Fill(150, {139, 140}), Fill(143, {1, 2}),
    Fill(500, {}), Fill(501, {}), Fill(520, {250, 500}) }

\* ------------------------------------------------------------ state
NoRange == [start |-> null, end |-> null]
NoTarget == [kind |-> null, min |-> 0, max |-> 0]
NoOutcome == [threw |-> FALSE, content |-> null]
NoFilters == [threw |-> FALSE, whereClause |-> null, searchKeywords |-> JsUndefined]
NoResult == [response |-> null]
NoProcs == <<>>
NoBatch ==
  [pc |-> "idle", texts |-> <<>>, pending |-> {}, order |-> <<>>,
   responses |-> <<>>, embeddings |-> <<>>, error |-> "none"]
NoDisk == [exists |-> FALSE, rows |-> {}]

RequestIdle ==
  /\ caller = "none"
  /\ userQuery = null
  /\ target = NoTarget
  /\ classification = NoOutcome
  /\ intent = JsUndefined
  /\ filters = NoFilters
  /\ queryEmbedding = <<>>
  /\ chunks = <<>>
  /\ contextualQuery = null
  /\ ragResult = NoResult
  /\ chatResult = NoResult
  /\ error = "none"
  /\ calls = <<>>
  /\ inFlight = {}

requestVars ==
  <<caller, userQuery, target, classification, intent, filters, queryEmbedding,
    chunks, contextualQuery, ragResult, chatResult, error, calls, inFlight>>

storeVars == <<db, table>>

\* --------------------------------------------- specification SpecTemporal
InitTemporal ==
  /\ pc = "call"
  /\ tzOffset \in TzOffsets
  /\ expression \in Expressions
  /\ currentDate \in ReferenceDates
  /\ dateRange = NoRange
  /\ procs = NoProcs
  /\ batchCall = NoBatch
  /\ disk = NoDisk
  /\ db = "null"
  /\ table = "null"
  /\ RequestIdle

ParseTemporalExpression ==
  /\ pc = "call"
  /\ \E r \in {parseTemporalExpression(expression, currentDate, tzOffset)} :
       /\ dateRange' = r
       /\ pc' = IF Raised(r) THEN "raised" ELSE "returned"
  /\ UNCHANGED <<batchCall, procs, disk, tzOffset, expression, currentDate, requestVars, storeVars>>

NextTemporal == ParseTemporalExpression

SpecTemporal == InitTemporal /\ [][NextTemporal]_vars

\* ------------------------------------------------------ specification Spec
Init ==
  /\ pc = "idle"
  /\ tzOffset \in TzOffsets
  /\ expression = null
  /\ currentDate = NewDate(2024, 3, 15, 22)
  /\ dateRange = NoRange
  /\ procs = NoProcs
  /\ batchCall = NoBatch
  /\ disk = NoDisk
  /\ db = "null"
  /\ table = "null"
  /\ RequestIdle

Issue(settled, call) ==
  /\ calls' = Append(calls, call)
  /\ inFlight' = (inFlight \ {settled}) \cup {call}

Reject(settled, label) ==
  /\ pc' = "rejected"
  /\ error' = label
  /\ calls' = calls
  /\ inFlight' = inFlight \ {settled}

\* mutant: ragChat starts the embedding call without awaiting understandQuery
Enter_concurrent(name, q, d) ==
  /\ pc = "idle"
  /\ caller' = name
  /\ userQuery' = q
  /\ currentDate' = d
  /\ target' = chooseTarget(q)
  /\ calls' = <<"classification", "embedding">>
  /\ inFlight' = {"classification", "embedding"}
  /\ pc' = "awaitClassification"
  /\ UNCHANGED <<batchCall, procs, disk, tzOffset, expression, dateRange, storeVars, classification, intent,
                 filters, queryEmbedding, chunks, contextualQuery, ragResult,
                 chatResult, error>>

\* chat / chatWithMetadata up to the first await: chooseTarget, then ragChat,
\* understandQuery and extractIntent up to the call of ollama.chat
Enter(name, q, d) ==
  /\ pc = "idle"
  /\ caller' = name
  /\ userQuery' = q
  /\ currentDate' = d
  /\ target' = chooseTarget(q)
  /\ classification' = NoOutcome
  /\ intent' = JsUndefined
  /\ filters' = NoFilters
  /\ queryEmbedding' = <<>>
  /\ chunks' = <<>>
  /\ contextualQuery' = null
  /\ ragResult' = NoResult
  /\ chatResult' = NoResult
  /\ error' = "none"
  /\ calls' = <<"classification">>
  /\ inFlight' = {"classification"}
  /\ pc' = "awaitClassification"
  /\ UNCHANGED <<batchCall, procs, disk, tzOffset, expression, dateRange, storeVars>>

Chat == \E q \in UserQueries, d \in RequestDates : Enter("chat", q, d)

ChatWithMetadata == \E q \in UserQueries, d \in RequestDates : Enter("chatWithMetadata", q, d)

\* extractIntent after ollama.chat has settled, then buildLanceDBFilters in
\* understandQuery, then ragChat up to the call of ollama.embeddings
Classified(outcome) ==
  /\ pc = "awaitClassification"
  /\ \E r \in {extractIntent(userQuery, outcome)} :
       \E f \in {IF r.threw THEN NoFilters
                 ELSE buildLanceDBFilters(r.value, currentDate, tzOffset)} :
         /\ classification' = outcome
         /\ intent' = IF r.threw THEN JsUndefined ELSE r.value
         /\ filters' = f
         /\ IF r.threw
            THEN Reject("classification", ClassificationError)
            ELSE IF f.threw
            THEN Reject("classification", f.error)
            ELSE /\ pc' = "awaitEmbedding"
                 /\ error' = error
                 /\ Issue("classification", "embedding")
  /\ UNCHANGED <<batchCall, procs, disk, tzOffset, expression, currentDate, dateRange, storeVars, caller,
                 userQuery, target, queryEmbedding, chunks, contextualQuery,
                 ragResult, chatResult>>

ClassificationResolves ==
  \E content \in ClassifierContents : Classified([threw |-> FALSE, content |-> content])

ClassificationRejects == Classified([threw |-> TRUE, content |-> null])

\* searchChunks returns found: buildContextualQuery, buildSystemPrompt and
\* generateResponse up to the call of ollama.chat
Retrieved(settled, found) ==
  /\ chunks' = found
  /\ contextualQuery' = buildContextualQuery(userQuery, found)
  /\ pc' = "awaitGeneration"
  /\ error' = error
  /\ Issue(settled, "generation")

\* generateEmbedding has returned embedding: searchChunks up to its first
\* await (or to its return when db is set and table is not)
Embedded(embedding) ==
  /\ queryEmbedding' = embedding
  /\ IF db = "null"
     THEN /\ pc' = "awaitConnect"
          /\ error' = error
          /\ Issue("embedding", "connect")
          /\ UNCHANGED <<chunks, contextualQuery>>
     ELSE IF table = "null"
     THEN Retrieved("embedding", <<>>)
     ELSE /\ pc' = "awaitSearch"
          /\ error' = error
          /\ Issue("embedding", "search")
          /\ UNCHANGED <<chunks, contextualQuery>>

\* generateEmbedding after ollama.embeddings has resolved
EmbeddingResolves ==
  \E embedding \in Embeddings :
    /\ pc = "awaitEmbedding"
    /\ IF Len(embedding) = 0
       THEN /\ Reject("embedding", EmbeddingError)
            /\ UNCHANGED <<queryEmbedding, chunks, contextualQuery>>
       ELSE Embedded(embedding)
    /\ UNCHANGED <<batchCall, procs, disk, tzOffset, expression, currentDate, dateRange, storeVars, caller,
                   userQuery, target, classification, intent, filters, ragResult,
                   chatResult>>

\* mutant: the catch clause of generateEmbedding returns an empty vector
EmbeddingRejects_swallowed ==
  /\ pc = "awaitEmbedding"
  /\ Embedded(<<>>)
  /\ UNCHANGED <<batchCall, procs, disk, tzOffset, expression, currentDate, dateRange, storeVars, caller,
                 userQuery, target, classification, intent, filters, ragResult,
                 chatResult>>

\* generateEmbedding after ollama.embeddings has rejected
EmbeddingRejects ==
  /\ pc = "awaitEmbedding"
  /\ Reject("embedding", EmbeddingError)
  /\ UNCHANGED <<batchCall, procs, disk, tzOffset, expression, currentDate, dateRange, storeVars, caller,
                 userQuery, target, classification, intent, filters, queryEmbedding,
                 chunks, contextualQuery, ragResult, chatResult>>

\* initLanceDB after lancedb.connect has resolved, up to db.openTable
ConnectResolves ==
  /\ pc = "awaitConnect"
  /\ db' = "Database"
  /\ pc' = "awaitOpenTable"
  /\ Issue("connect", "openTable")
  /\ UNCHANGED <<batchCall, procs, disk, tzOffset, expression, currentDate, dateRange, table, caller,
                 userQuery, target, classification, intent, filters, queryEmbedding,
                 chunks, contextualQuery, ragResult, chatResult, error>>

ConnectRejects ==
  /\ pc = "awaitConnect"
  /\ Reject("connect", InitError)
  /\ UNCHANGED <<batchCall, procs, disk, tzOffset, expression, currentDate, dateRange, storeVars, caller,
                 userQuery, target, classification, intent, filters, queryEmbedding,
                 chunks, contextualQuery, ragResult, chatResult>>

\* initLanceDB after db.openTable has resolved, then searchChunks up to the
\* query of the table
OpenTableResolves ==
  /\ pc = "awaitOpenTable"
  /\ table' = "Table"
  /\ pc' = "awaitSearch"
  /\ Issue("openTable", "search")
  /\ UNCHANGED <<batchCall, procs, disk, tzOffset, expression, currentDate, dateRange, db, caller,
                 userQuery, target, classification, intent, filters, queryEmbedding,
                 chunks, contextualQuery, ragResult, chatResult, error>>

\* db.openTable throws (no table): table = null and searchChunks returns []
OpenTableRejects ==
  /\ pc = "awaitOpenTable"
  /\ table' = "null"
  /\ Retrieved("openTable", <<>>)
  /\ UNCHANGED <<batchCall, procs, disk, tzOffset, expression, currentDate, dateRange, db, caller,
                 userQuery, target, classification, intent, filters, queryEmbedding,
                 ragResult, chatResult>>

SearchResolves ==
  \E found \in SearchResults :
    /\ pc = "awaitSearch"
    /\ Retrieved("search", found)
    /\ UNCHANGED <<batchCall, procs, disk, tzOffset, expression, currentDate, dateRange, storeVars, caller,
                   userQuery, target, classification, intent, filters, queryEmbedding,
                   ragResult, chatResult>>

SearchRejects ==
  /\ pc = "awaitSearch"
  /\ Reject("search", SearchError)
  /\ UNCHANGED <<batchCall, procs, disk, tzOffset, expression, currentDate, dateRange, storeVars, caller,
                 userQuery, target, classification, intent, filters, queryEmbedding,
                 chunks, contextualQuery, ragResult, chatResult>>

\* generateResponse after ollama.chat has resolved, the return of ragChat and
\* trimToRange in chat / chatWithMetadata
GenerationResolves ==
  \E content \in GeneratedContents :
    LET response == trim(content)
        metadata == [queryType |-> extractQueryType(filters.whereClause),
                     chunksFound |-> Len(chunks)]
        trimmedResponse == trimToRange(response, target.min, target.max)
    IN /\ pc = "awaitGeneration"
       /\ ragResult' = [response |-> response, chunksUsed |-> chunks, metadata |-> metadata]
       /\ chatResult' =
            IF caller = "chat"
            THEN [response |-> trimmedResponse]
            ELSE [response |-> trimmedResponse,
                  metadata |-> [queryType |-> metadata.queryType,
                                chunksFound |-> metadata.chunksFound,
                                chunksUsed |-> chunks,
                                characterRange |-> [min |-> target.min, max |-> target.max]]]
       /\ pc' = "done"
       /\ calls' = calls
       /\ inFlight' = inFlight \ {"generation"}
       /\ UNCHANGED <<batchCall, procs, disk, tzOffset, expression, currentDate, dateRange, storeVars, caller,
                      userQuery, target, classification, intent, filters, queryEmbedding,
                      chunks, contextualQuery, error>>

GenerationRejects ==
  /\ pc = "awaitGeneration"
  /\ Reject("generation", GenerationError)
  /\ UNCHANGED <<batchCall, procs, disk, tzOffset, expression, currentDate, dateRange, storeVars, caller,
                 userQuery, target, classification, intent, filters, queryEmbedding,
                 chunks, contextualQuery, ragResult, chatResult>>

\* the promise of chat / chatWithMetadata has settled and the caller has
\* taken its value or its error: the locals of the request are gone
Settled ==
  /\ pc \in {"done", "rejected"}
  /\ pc' = "idle"
  /\ caller' = "none"
  /\ userQuery' = null
  /\ target' = NoTarget
  /\ classification' = NoOutcome
  /\ intent' = JsUndefined
  /\ filters' = NoFilters
  /\ queryEmbedding' = <<>>
  /\ chunks' = <<>>
  /\ contextualQuery' = null
  /\ ragResult' = NoResult
  /\ chatResult' = NoResult
  /\ error' = "none"
  /\ calls' = <<>>
  /\ inFlight' = {}
  /\ UNCHANGED <<batchCall, procs, disk, tzOffset, expression, currentDate, dateRange, storeVars>>

\* closeLanceDB, called while no request is in progress
CloseLanceDB ==
  /\ pc = "idle"
  /\ table' = "null"
  /\ db' = "null"
  /\ UNCHANGED <<pc, batchCall, procs, disk, tzOffset, expression, currentDate, dateRange, requestVars>>

Next ==
  \/ Chat
  \/ ChatWithMetadata
  \/ ClassificationResolves
  \/ ClassificationRejects
  \/ EmbeddingResolves
  \/ EmbeddingRejects
  \/ ConnectResolves
  \/ ConnectRejects
  \/ OpenTableResolves
  \/ OpenTableRejects
  \/ SearchResolves
  \/ SearchRejects
  \/ GenerationResolves
  \/ GenerationRejects
  \/ Settled
  \/ CloseLanceDB

Spec == Init /\ [][Next]_vars

\* ------------------------------------------------- specification SpecTrim
\* texts handed to trimToRange: every string of at most MaxTextLen characters
\* over a letter, a blank and a line break
TrimTexts == UNION { [1..k -> {"x", " ", "\n"}] : k \in 0..MaxTextLen }

\* ranges handed to trimToRange (character counts)
TrimRanges == { [kind |-> null, min |-> lo, max |-> hi] : lo \in {0, 2, 4}, hi \in 0..4 }

InitTrim ==
  /\ pc = "call"
  /\ tzOffset = 0
  /\ expression = null
  /\ currentDate = NewDate(2024, 3, 15, 22)
  /\ dateRange = NoRange
  /\ procs = NoProcs
  /\ batchCall = NoBatch
  /\ disk = NoDisk
  /\ db = "null"
  /\ table = "null"
  /\ caller = "chat"
  /\ userQuery = null
  /\ target \in TrimRanges
  /\ classification = NoOutcome
  /\ intent = JsUndefined
  /\ filters = NoFilters
  /\ queryEmbedding = <<>>
  /\ chunks = <<>>
  /\ contextualQuery = null
  /\ \E text \in TrimTexts : ragResult = [response |-> text]
  /\ chatResult = NoResult
  /\ error = "none"
  /\ calls = <<>>
  /\ inFlight = {}

\* const trimmedResponse = trimToRange(result.response, target.min, target.max)
TrimToRange ==
  /\ pc = "call"
  /\ chatResult' = [response |-> trimToRange(ragResult.response, target.min, target.max)]
  /\ pc' = "returned"
  /\ UNCHANGED <<batchCall, procs, disk, tzOffset, expression, currentDate, dateRange, storeVars, caller,
                 userQuery, target, classification, intent, filters, queryEmbedding,
                 chunks, contextualQuery, ragResult, error, calls, inFlight>>

NextTrim == TrimToRange

SpecTrim == InitTrim /\ [][NextTrim]_vars

\* ------------------------------------------------------------ vector-db.ts
\* !value for a string-valued field: undefined or the empty string
Missing(value) == value = undefined \/ Len(value) = 0

\* isValidISO8601Date: /^\d{4}-\d{2}-\d{2}$/, then new Date(dateString) is
\* no Invalid Date (month 01..12 and day 01..31, as V8 parses a date-only form)
isValidISO8601Date(dateString) ==
  /\ Len(dateString) = 10
  /\ dateString[5] = "-"
  /\ dateString[8] = "-"
  /\ \A i \in {1, 2, 3, 4, 6, 7, 9, 10} : dateString[i] \in DigitSet
  /\ parseInt(SubSeq(dateString, 6, 7)) \in 1..12
  /\ parseInt(SubSeq(dateString, 9, 10)) \in 1..31

\* validateChunk: the message of the Error it throws, or "valid"
validateChunk(chunk) ==
  IF Missing(chunk.id) THEN "Chunk deve ter um id"
  ELSE IF chunk.embedding = undefined \/ Len(chunk.embedding) = 0
  THEN "Chunk deve ter um embedding"
  ELSE IF Missing(chunk.text) \/ Len(trim(chunk.text)) = 0 THEN "Chunk deve ter texto"
  ELSE IF Missing(chunk.type)
          \/ chunk.type \notin {QueryLit.transacional, QueryLit.insight, QueryLit.educacao}
  THEN "Chunk deve ter um tipo válido"
  ELSE IF Missing(chunk.date) THEN "Chunk deve ter uma data"
  ELSE IF ~isValidISO8601Date(chunk.date) THEN "Data inválida"
  ELSE IF Missing(chunk.source) THEN "Chunk deve ter uma fonte"
  ELSE "valid"

\* mutant: only the first chunk of the batch is validated
validateAll_firstOnly(batch) ==
  IF Len(batch) = 0 THEN "valid" ELSE validateChunk(Head(batch))

\* for (const chunk of chunks) validateChunk(chunk): the first message thrown
RECURSIVE validateAll(_)
validateAll(batch) ==
  IF Len(batch) = 0 THEN "valid"
  ELSE IF validateChunk(Head(batch)) # "valid" THEN validateChunk(Head(batch))
  ELSE validateAll(Tail(batch))

\* error labels of vector-db.ts
NotInitialized == "Database não inicializado"
InsertError == "Falha ao inserir chunks"

\* ------------------------------------------------ inputs of vector-db.ts
chunkA ==
  [ id |-> <<"a","1">>, embedding |-> <<1, 2>>, text |-> <<"G","a","s","t","o">>,
      type |-> <<"t","r","a","n","s","a","c","i","o","n","a","l">>, date |-> <<"2","0","2","4","-","0","3","-","0","5">>, source |-> <<"e","x","t","r","a","t","o">> ]

chunkB ==
  [ id |-> <<"b","1">>, embedding |-> <<1, 2>>, text |-> <<"A","n","á","l","i","s","e">>,
      type |-> <<"i","n","s","i","g","h","t">>, date |-> <<"2","0","2","4","-","0","3","-","0","5">>, source |-> <<"a","n","a","l","i","s","e">> ]

chunkC ==
  [ id |-> <<"c","1">>, embedding |-> <<1, 2>>, text |-> <<"G","a","s","t","o">>,
      type |-> <<"t","r","a","n","s","a","c","i","o","n","a","l">>, date |-> <<"2","0","2","4","-","0","3","-","0","5">>, source |-> <<"e","x","t","r","a","t","o">> ]

\* chunks that validateChunk rejects, one for each of its tests
BadChunks ==
  { [ id |-> <<>>, embedding |-> <<1, 2>>, text |-> <<"G","a","s","t","o">>,
      type |-> <<"t","r","a","n","s","a","c","i","o","n","a","l">>, date |-> <<"2","0","2","4","-","0","3","-","0","5">>, source |-> <<"e","x","t","r","a","t","o">> ],
    [ id |-> <<"x","2">>, embedding |-> <<>>, text |-> <<"G","a","s","t","o">>,
      type |-> <<"t","r","a","n","s","a","c","i","o","n","a","l">>, date |-> <<"2","0","2","4","-","0","3","-","0","5">>, source |-> <<"e","x","t","r","a","t","o">> ],
    [ id |-> <<"x","3">>, embedding |-> <<1, 2>>, text |-> <<" ","\n">>,
      type |-> <<"t","r","a","n","s","a","c","i","o","n","a","l">>, date |-> <<"2","0","2","4","-","0","3","-","0","5">>, source |-> <<"e","x","t","r","a","t","o">> ],
    [ id |-> <<"x","4">>, embedding |-> <<1, 2>>, text |-> <<"G","a","s","t","o">>,
      type |-> <<"o","u","t","r","o">>, date |-> <<"2","0","2","4","-","0","3","-","0","5">>, source |-> <<"e","x","t","r","a","t","o">> ],
    [ id |-> <<"x","5">>, embedding |-> <<1, 2>>, text |-> <<"G","a","s","t","o">>,
      type |-> <<"t","r","a","n","s","a","c","i","o","n","a","l">>, date |-> undefined, source |-> <<"e","x","t","r","a","t","o">> ],
    [ id |-> <<"x","6">>, embedding |-> <<1, 2>>, text |-> <<"G","a","s","t","o">>,
      type |-> <<"t","r","a","n","s","a","c","i","o","n","a","l">>, date |-> <<"0","5","/","0","3","/","2","0","2","4">>, source |-> <<"e","x","t","r","a","t","o">> ],
    [ id |-> <<"x","7">>, embedding |-> <<1, 2>>, text |-> <<"G","a","s","t","o">>,
      type |-> <<"t","r","a","n","s","a","c","i","o","n","a","l">>, date |-> <<"2","0","2","4","-","1","3","-","0","1">>, source |-> <<"e","x","t","r","a","t","o">> ],
    [ id |-> <<"x","8">>, embedding |-> <<1, 2>>, text |-> <<"G","a","s","t","o">>,
      type |-> <<"t","r","a","n","s","a","c","i","o","n","a","l">>, date |-> <<"2","0","2","4","-","0","3","-","0","5">>, source |-> <<>> ] }

ValidBatches == { <<chunkA>>, <<chunkB>> }

\* batches with one chunk that validateChunk rejects, after or before a valid one
InvalidBatches ==
  { <<chunkC, bad>> : bad \in BadChunks } \cup { <<bad, chunkC>> : bad \in BadChunks }

\* the callers that run concurrently, each in one call of initLanceDB,
\* insertChunks, searchChunks (the search step of ragChat) or closeLanceDB
Procs == {1, 2}

IdleProc ==
  [op |-> "none", pc |-> "idle", batch |-> <<>>, result |-> {}, error |-> "none",
   tableAtStart |-> FALSE]

IdsOf(batch) == { batch[i].id : i \in 1..Len(batch) }

pipelineVars ==
  <<pc, batchCall, tzOffset, expression, currentDate, dateRange, caller, userQuery, target,
    classification, intent, filters, queryEmbedding, chunks, contextualQuery,
    ragResult, chatResult, error, calls, inFlight>>

\* ---------------------------------------------------- specification SpecStore
\* the module starts unconnected, or connected by an earlier initLanceDB
InitStore ==
  /\ pc = "idle"
  /\ tzOffset = 0
  /\ expression = null
  /\ currentDate = NewDate(2024, 3, 15, 22)
  /\ dateRange = NoRange
  /\ RequestIdle
  /\ procs = [p \in Procs |-> IdleProc]
  /\ batchCall = NoBatch
  /\ disk \in { NoDisk, [exists |-> TRUE, rows |-> {<<"s","1">>}] }
  /\ db \in {"null", "Database"}
  /\ table = IF db = "Database" /\ disk.exists THEN "Table" ELSE "null"

\* the caller after its if (!db) await initLanceDB(): the synchronous code of
\* its function up to the next await
Resume(proc, dbNow, tableNow) ==
  IF proc.op = "initLanceDB" THEN [proc EXCEPT !.pc = "done"]
  ELSE IF dbNow = "null" THEN [proc EXCEPT !.pc = "failed", !.error = NotInitialized]
  ELSE IF proc.op = "searchChunks"
  THEN IF tableNow = "null"
       THEN [proc EXCEPT !.pc = "done", !.result = {}]
       ELSE [proc EXCEPT !.pc = "query"]
  ELSE IF validateAll(proc.batch) # "valid"
  THEN [proc EXCEPT !.pc = "failed", !.error = validateAll(proc.batch)]
  ELSE IF tableNow = "null"
  THEN [proc EXCEPT !.pc = "createTable"]
  ELSE [proc EXCEPT !.pc = "add"]

\* a caller invokes op: the function runs up to its first await
Start(p, op, batch) ==
  /\ procs[p].pc = "idle"
  /\ \E proc \in {[IdleProc EXCEPT !.op = op, !.batch = batch,
                                   !.tableAtStart = disk.exists]} :
       IF op = "closeLanceDB"
       THEN /\ table' = "null"
            /\ db' = "null"
            /\ procs' = [procs EXCEPT ![p] = [proc EXCEPT !.pc = "done"]]
       ELSE /\ procs' = [procs EXCEPT ![p] =
                           IF op = "initLanceDB" \/ db = "null"
                           THEN [proc EXCEPT !.pc = "connect"]
                           ELSE Resume(proc, db, table)]
            /\ UNCHANGED <<db, table>>
  /\ UNCHANGED <<disk, pipelineVars>>

StartInit == \E p \in Procs : Start(p, "initLanceDB", <<>>)

StartSearch == \E p \in Procs : Start(p, "searchChunks", <<>>)

StartInsert ==
  \E p \in Procs, batch \in ValidBatches \cup InvalidBatches : Start(p, "insertChunks", batch)

StartClose == \E p \in Procs : Start(p, "closeLanceDB", <<>>)

\* db = await lancedb.connect(DB_PATH), up to db.openTable
StoreConnectResolves ==
  \E p \in Procs :
    /\ procs[p].pc = "connect"
    /\ db' = "Database"
    /\ procs' = [procs EXCEPT ![p].pc = "openTable"]
    /\ UNCHANGED <<table, disk, pipelineVars>>

\* lancedb.connect rejects: initLanceDB rethrows and its caller with it
StoreConnectRejects ==
  \E p \in Procs :
    /\ procs[p].pc = "connect"
    /\ procs' = [procs EXCEPT ![p].pc = "failed", ![p].error = InitError]
    /\ UNCHANGED <<db, table, disk, pipelineVars>>

\* table = await db.openTable(TABLE_NAME) when the table exists
StoreOpenTableResolves ==
  \E p \in Procs :
    /\ procs[p].pc = "openTable"
    /\ disk.exists
    /\ table' = "Table"
    /\ procs' = [procs EXCEPT ![p].pc = "initReturned"]
    /\ UNCHANGED <<db, disk, pipelineVars>>

\* db.openTable throws because there is no table: table = null
StoreOpenTableRejects ==
  \E p \in Procs :
    /\ procs[p].pc = "openTable"
    /\ ~disk.exists
    /\ table' = "null"
    /\ procs' = [procs EXCEPT ![p].pc = "initReturned"]
    /\ UNCHANGED <<db, disk, pipelineVars>>

\* the promise of initLanceDB has resolved: its caller goes on after
\* await initLanceDB() with the db and table of that moment
InitLanceDBReturns ==
  \E p \in Procs :
    /\ procs[p].pc = "initReturned"
    /\ procs' = [procs EXCEPT ![p] = Resume(procs[p], db, table)]
    /\ UNCHANGED <<db, table, disk, pipelineVars>>

\* table = await db.createTable(TABLE_NAME, lancedbChunks), up to the first
\* createScalarIndex; the database creates a table only where there is none
CreateTableResolves ==
  \E p \in Procs :
    /\ procs[p].pc = "createTable"
    /\ ~disk.exists
    /\ disk' = [exists |-> TRUE, rows |-> IdsOf(procs[p].batch)]
    /\ table' = "Table"
    /\ procs' = [procs EXCEPT ![p].pc = "indexDate"]
    /\ UNCHANGED <<db, pipelineVars>>

\* db.createTable rejects because the table exists already
CreateTableRejects ==
  \E p \in Procs :
    /\ procs[p].pc = "createTable"
    /\ disk.exists
    /\ procs' = [procs EXCEPT ![p].pc = "failed", ![p].error = InsertError]
    /\ UNCHANGED <<db, table, disk, pipelineVars>>

\* await table.add(lancedbChunks), up to the first createScalarIndex; reading
\* table once closeLanceDB has cleared it throws into the inner catch
AddResolves ==
  \E p \in Procs :
    /\ procs[p].pc = "add"
    /\ disk' = [disk EXCEPT !.rows = @ \cup IdsOf(procs[p].batch)]
    /\ procs' = [procs EXCEPT ![p].pc = IF table = "null" THEN "done" ELSE "indexDate"]
    /\ UNCHANGED <<db, table, pipelineVars>>

AddRejects ==
  \E p \in Procs :
    /\ procs[p].pc = "add"
    /\ procs' = [procs EXCEPT ![p].pc = "failed", ![p].error = InsertError]
    /\ UNCHANGED <<db, table, disk, pipelineVars>>

\* await table.createScalarIndex("date") has resolved
IndexDateResolves ==
  \E p \in Procs :
    /\ procs[p].pc = "indexDate"
    /\ procs' = [procs EXCEPT ![p].pc = IF table = "null" THEN "done" ELSE "indexType"]
    /\ UNCHANGED <<db, table, disk, pipelineVars>>

\* await table.createScalarIndex("type") has resolved
IndexTypeResolves ==
  \E p \in Procs :
    /\ procs[p].pc = "indexType"
    /\ procs' = [procs EXCEPT ![p].pc = "done"]
    /\ UNCHANGED <<db, table, disk, pipelineVars>>

\* a createScalarIndex rejects: the inner catch ignores it
IndexRejects ==
  \E p \in Procs :
    /\ procs[p].pc \in {"indexDate", "indexType"}
    /\ procs' = [procs EXCEPT ![p].pc = "done"]
    /\ UNCHANGED <<db, table, disk, pipelineVars>>

\* await query.limit(limit).toArray() has resolved with the rows of the table
QueryResolves ==
  \E p \in Procs :
    /\ procs[p].pc = "query"
    /\ procs' = [procs EXCEPT ![p].pc = "done", ![p].result = disk.rows]
    /\ UNCHANGED <<db, table, disk, pipelineVars>>

QueryRejects ==
  \E p \in Procs :
    /\ procs[p].pc = "query"
    /\ procs' = [procs EXCEPT ![p].pc = "failed", ![p].error = SearchError]
    /\ UNCHANGED <<db, table, disk, pipelineVars>>

NextStore ==
  \/ StartInit
  \/ StartSearch
  \/ StartInsert
  \/ StartClose
  \/ StoreConnectResolves
  \/ StoreConnectRejects
  \/ StoreOpenTableResolves
  \/ StoreOpenTableRejects
  \/ InitLanceDBReturns
  \/ CreateTableResolves
  \/ CreateTableRejects
  \/ AddResolves
  \/ AddRejects
  \/ IndexDateResolves
  \/ IndexTypeResolves
  \/ IndexRejects
  \/ QueryResolves
  \/ QueryRejects

SpecStore == InitStore /\ [][NextStore]_vars

\* ---------------------------------------------------- specification SpecBatch
\* embeddings.ts: generateEmbeddingsBatch over lists of at most MaxTexts texts
MaxTexts == 3

TextLists == UNION { [1..n -> {<<"a">>, <<"b">>}] : n \in 0..MaxTexts }

InitBatch ==
  /\ pc = "idle"
  /\ tzOffset = 0
  /\ expression = null
  /\ currentDate = NewDate(2024, 3, 15, 22)
  /\ dateRange = NoRange
  /\ RequestIdle
  /\ procs = NoProcs
  /\ disk = NoDisk
  /\ db = "null"
  /\ table = "null"
  /\ batchCall = NoBatch

\* generateEmbeddingsBatch(texts) up to its await: texts.map calls
\* generateEmbedding for every text, and each call runs up to its
\* await ollama.embeddings; Promise.all of no promise resolves with []
GenerateEmbeddingsBatch ==
  /\ batchCall.pc = "idle"
  /\ \E texts \in TextLists :
       batchCall' = [NoBatch EXCEPT
                       !.pc = IF Len(texts) = 0 THEN "returned" ELSE "awaiting",
                       !.texts = texts,
                       !.pending = 1..Len(texts),
                       !.responses = [i \in 1..Len(texts) |-> undefined]]
  /\ UNCHANGED <<pc, procs, disk, tzOffset, expression, currentDate, dateRange,
                 requestVars, storeVars>>

\* generateEmbedding of the text at index i once ollama.embeddings has
\* settled: it throws for a rejection or an empty embedding, else returns
\* the embedding.  Promise.all rejects with the first failure, and resolves
\* with the values in the order of the promises once the last one resolves.
BatchEmbeddingSettles ==
  /\ \E i \in batchCall.pending :
       \E outcome \in {[threw |-> TRUE, embedding |-> undefined]}
                      \cup {[threw |-> FALSE, embedding |-> e] : e \in Embeddings \cup {<<3, 4>>}} :
         \E failed \in {outcome.threw \/ Len(outcome.embedding) = 0} :
           batchCall' =
             [batchCall EXCEPT
                !.pending = @ \ {i},
                !.order = Append(@, i),
                !.responses[i] = IF failed THEN undefined ELSE outcome.embedding,
                !.pc = IF @ # "awaiting" THEN @
                       ELSE IF failed THEN "rejected"
                       ELSE IF batchCall.pending = {i} THEN "returned"
                       ELSE "awaiting",
                !.error = IF batchCall.pc = "awaiting" /\ failed THEN EmbeddingError ELSE @,
                !.embeddings = IF batchCall.pc = "awaiting" /\ ~failed /\ batchCall.pending = {i}
                               THEN [batchCall.responses EXCEPT ![i] = outcome.embedding]
                               ELSE @]
  /\ UNCHANGED <<pc, procs, disk, tzOffset, expression, currentDate, dateRange,
                 requestVars, storeVars>>

NextBatch ==
  \/ GenerateEmbeddingsBatch
  \/ BatchEmbeddingSettles

SpecBatch == InitBatch /\ [][NextBatch]_vars

\* ------------------------------------------------------------- properties
IsoDate(y, m, d) ==
  padStart(String(y), 4, "0") \o <<"-">> \o padStart(String(m), 2, "0")
    \o <<"-">> \o padStart(String(d), 2, "0")

\* number of conditions of whereClause that start with prefix, counted
\* outside the quoted literals
ConditionCount(whereClause, prefix) ==
  Cardinality({ i \in 1..Len(whereClause) :
                  /\ i + Len(prefix) - 1 <= Len(whereClause)
                  /\ SubSeq(whereClause, i, i + Len(prefix) - 1) = prefix
                  /\ Cardinality({j \in 1..(i - 1) : whereClause[j] = "'"}) % 2 = 0 })

Categories ==
  { <<"t","r","a","n","s","a","c","i","o","n","a","l">>,
    <<"i","n","s","i","g","h","t">>,
    <<"e","d","u","c","a","c","a","o">> }

IsClassified == classification # NoOutcome

\* C1: every whereClause emitted by buildLanceDBFilters, whatever the intent
\* handed to it, holds exactly one category equality condition and either no
\* date condition or one lower and one upper bound.
C1_FilterShape ==
  (IsClassified /\ ~filters.threw /\ filters.whereClause # null) =>
    /\ ConditionCount(filters.whereClause, <<"t","y","p","e"," ","="," ","'">>) = 1
    /\ ConditionCount(filters.whereClause, <<"d","a","t","e"," ",">","="," ","'">>)
         = ConditionCount(filters.whereClause, <<"d","a","t","e"," ","<","="," ","'">>)
    /\ ConditionCount(filters.whereClause, <<"d","a","t","e"," ",">","="," ","'">>) \in {0, 1}

\* C2: for a phrase meaning last month, start is day 01 and end the true last
\* calendar day of the month before the reference month, in the reference
\* year, or December of the previous year when the reference month is January.
C2_LastMonthRange ==
  (pc = "returned" /\ expression \in LastMonthPhrases) =>
    LET ref == Civil(currentDate.dn)
        m == IF ref.month = 1 THEN 12 ELSE ref.month - 1
        y == IF ref.month = 1 THEN ref.year - 1 ELSE ref.year
    IN /\ dateRange.start = IsoDate(y, m, 1)
       /\ dateRange.end = IsoDate(y, m, TrueDaysInMonth(y, m))

C2_Witness ==
  /\ pc = "returned"
  /\ expression \in LastMonthPhrases
  /\ Civil(currentDate.dn) = [year |-> 2024, month |-> 1, day |-> 31]
  /\ dateRange.start = <<"2","0","2","3","-","1","2","-","0","1">>
  /\ dateRange.end = <<"2","0","2","3","-","1","2","-","3","1">>

\* C3: a last-N-days phrase resolves to the range that ends on the reference
\* date's calendar date and starts N calendar days earlier, at any time of day
\* and any time-zone offset.
C3_LastNDaysRange ==
  \A n \in DayCounts :
    (pc = "returned" /\ expression = lastNDays(n)) =>
      LET ref == Civil(currentDate.dn)
          first == Civil(currentDate.dn - n)
      IN /\ dateRange.end = IsoDate(ref.year, ref.month, ref.day)
         /\ dateRange.start = IsoDate(first.year, first.month, first.day)

UnparseableContents ==
  { <<"d","e","s","c","u","l","p","e">>, <<"{","wellFormed">> }

ClassificationFailed ==
  /\ IsClassified
  /\ (classification.threw \/ classification.content \in UnparseableContents)

C5_CategoryEnumerated ==
  IsClassified =>
    /\ intent.t = "object"
    /\ intent.type.t = "string"
    /\ intent.type.v \in Categories

\* C6: in every Intent returned by extractIntent, temporalExpression is set
\* if and only if hasTemporalFilter is true.
C6_PhraseIffFlag ==
  (IsClassified /\ intent.t = "object") =>
    ((intent.temporalExpression.t # "undefined") <=> (intent.hasTemporalFilter = JsBoolean(TRUE)))

StageOf(call) ==
  CASE call = "classification" -> 1
    [] call = "embedding" -> 2
    [] call \in {"connect", "openTable", "search"} -> 3
    [] call = "generation" -> 4

LastCall == calls[Len(calls)]

\* C7: a failure of the embedding call, of the store or of the generation
\* call rejects the request with the error labelled by that stage, without a
\* result, and no later stage is invoked.
C7_FatalLabelled ==
  /\ (pc \in {"awaitConnect", "awaitOpenTable", "awaitSearch", "awaitGeneration", "done"}
        => Len(queryEmbedding) > 0)
  /\ (pc = "rejected" =>
        /\ ragResult = NoResult
        /\ chatResult = NoResult
        /\ inFlight = {}
        /\ LastCall # "openTable"
        /\ (LastCall = "embedding" => error = "Falha ao gerar embedding")
        /\ (LastCall = "connect" => error = "Falha ao inicializar LanceDB")
        /\ (LastCall = "search" => error = "Falha ao buscar chunks")
        /\ (LastCall = "generation" => error = "Falha ao gerar resposta")
        /\ \A i \in 1..Len(calls) : StageOf(calls[i]) <= StageOf(LastCall))

C7_Witness ==
  /\ pc = "rejected"
  /\ error = "Falha ao gerar embedding"
  /\ calls = <<"classification", "embedding">>
  /\ queryEmbedding = <<>>

\* C8: the external calls of a request are issued in the order
\* classification, embedding, similarity search, generation, each after the
\* previous one has settled, never two in flight, each at most once.
C8_Sequential ==
  /\ Cardinality(inFlight) <= 1
  /\ \A c \in inFlight : Len(calls) > 0 /\ LastCall = c
  /\ \A i, j \in 1..Len(calls) :
       i < j => (calls[i] # calls[j] /\ StageOf(calls[i]) <= StageOf(calls[j]))
  /\ \A i \in 1..Len(calls) :
       calls[i] = "embedding" => \E j \in 1..(i - 1) : calls[j] = "classification"
  /\ \A i \in 1..Len(calls) :
       StageOf(calls[i]) \in {3, 4} => \E j \in 1..(i - 1) : calls[j] = "embedding"

C8_Witness ==
  /\ pc = "done"
  /\ calls = <<"classification", "embedding", "connect", "openTable", "search", "generation">>
  /\ inFlight = {}

\* C9: when the store is connected and no table exists, searchChunks returns
\* an empty sequence without raising, the text sent to the generative model
\* is exactly the user's query, and the result reports no chunk.
C9_NoTable ==
  (pc \in {"awaitGeneration", "done"} /\ db = "Database" /\ table = "null") =>
    /\ error = "none"
    /\ chunks = <<>>
    /\ contextualQuery = userQuery
    /\ \A i \in 1..Len(calls) : calls[i] # "search"
    /\ (pc = "done" =>
          /\ ragResult.metadata.chunksFound = 0
          /\ ragResult.chunksUsed = <<>>
          /\ (caller = "chatWithMetadata" =>
                /\ chatResult.metadata.chunksFound = 0
                /\ chatResult.metadata.chunksUsed = <<>>))

C9_Witness ==
  /\ pc = "done"
  /\ db = "Database"
  /\ table = "null"
  /\ caller = "chatWithMetadata"
  /\ chatResult.metadata.chunksFound = 0
  /\ contextualQuery = userQuery

\* C10: the response of chat / chatWithMetadata is never longer than the max
\* of the message's target (140 for transacional, 500 otherwise); an answer
\* longer than max is cut to its first max characters with the trailing
\* whitespace stripped, an answer shorter than min is returned unchanged.
C10_LengthBounded ==
  (pc = "done") =>
    LET max == IF target.kind = <<"t","r","a","n","s","a","c","i","o","n","a","l">>
               THEN 140 ELSE 500
        answer == ragResult.response
    IN /\ target.max = max
       /\ Len(chatResult.response) <= max
       /\ (Len(answer) > max => chatResult.response = trimEnd(SubSeq(answer, 1, max)))
       /\ (Len(answer) < target.min => chatResult.response = answer)

C10_Witness ==
  /\ pc = "done"
  /\ target.max = 140
  /\ Len(ragResult.response) = 150
  /\ Len(chatResult.response) = 138

\* C11: trimToRange is idempotent: applying it with the same range to its own
\* result gives that result again.
C11_TrimIdempotent ==
  (pc = "returned" /\ caller = "chat" /\ userQuery = null) =>
    trimToRange(chatResult.response, target.min, target.max) = chatResult.response

C11_Witness ==
  /\ pc = "returned"
  /\ userQuery = null
  /\ ragResult.response = <<"x", " ", "\n", "x", "x">>
  /\ target.max = 3
  /\ chatResult.response = <<"x">>

\* C12: the kind chooseTarget gives a user text is the category the fallback
\* of the classifier gives the same text.
C12_SameHeuristic ==
  (ClassificationFailed /\ intent.t = "object") => target.kind = intent.type.v

\* the category written in the equality condition that opens whereClause:
\* the text between type = ' and the next quote
EqualityCategory(whereClause) ==
  SubSeq(whereClause, 9,
         (CHOOSE i \in 9..Len(whereClause) :
            whereClause[i] = "'" /\ \A j \in 9..(i - 1) : whereClause[j] # "'") - 1)

\* C13: the category reported in the result of the pipeline is the category
\* of the equality condition of the predicate sent to the vector store.
C13_ReportedCategory ==
  (pc = "done" /\ IsClassified) =>
    ragResult.metadata.queryType = EqualityCategory(filters.whereClause)

\* for each phrase that matches several patterns, a phrase that matches only
\* the earliest of them in the order last month, this month, last N days,
\* last week, month name, carnaval
EarliestPattern ==
  { [phrase |-> <<"m","ê","s"," ","p","a","s","s","a","d","o"," ","e"," ","e","s","t","e"," ","m","ê","s">>, alone |-> <<"m","ê","s"," ","p","a","s","s","a","d","o">>],
    [phrase |-> <<"e","s","t","e"," ","m","ê","s",","," ","ú","l","t","i","m","o","s"," ","7"," ","d","i","a","s">>, alone |-> <<"e","s","t","e"," ","m","ê","s">>],
    [phrase |-> <<"ú","l","t","i","m","o","s"," ","3","0"," ","d","i","a","s",","," ","ú","l","t","i","m","a"," ","s","e","m","a","n","a">>, alone |-> <<"ú","l","t","i","m","o","s"," ","3","0"," ","d","i","a","s">>],
    [phrase |-> <<"ú","l","t","i","m","a"," ","s","e","m","a","n","a"," ","d","e"," ","a","b","r","i","l">>, alone |-> <<"ú","l","t","i","m","a"," ","s","e","m","a","n","a">>],
    [phrase |-> <<"a","b","r","i","l",","," ","c","a","r","n","a","v","a","l">>, alone |-> <<"a","b","r","i","l">>],
    [phrase |-> <<"c","a","r","n","a","v","a","l"," ","d","o"," ","m","ê","s"," ","p","a","s","s","a","d","o">>, alone |-> <<"m","ê","s"," ","p","a","s","s","a","d","o">>],
    [phrase |-> <<"ú","l","t","i","m","o","s"," ","3","0"," ","d","i","a","s"," ","d","e"," ","a","b","r","i","l">>, alone |-> <<"ú","l","t","i","m","o","s"," ","3","0"," ","d","i","a","s">>] }

\* C14: a phrase that matches several patterns resolves as the earliest of
\* them alone does, a phrase that matches none resolves to no start and no
\* end, and parseTemporalExpression never raises.
C14_PriorityNeverRaises ==
  /\ pc # "raised"
  /\ \A c \in EarliestPattern :
       (pc = "returned" /\ expression = c.phrase) =>
         dateRange = parseTemporalExpression(c.alone, currentDate, tzOffset)
  /\ (pc = "returned" /\ expression = <<"o","n","t","e","m">>) =>
       dateRange = [start |-> null, end |-> null]

\* YYYY-MM-DD: four, two and two digits separated by hyphens
IsYMD(s) ==
  /\ Len(s) = 10
  /\ s[5] = "-"
  /\ s[8] = "-"
  /\ \A i \in {1, 2, 3, 4, 6, 7, 9, 10} : s[i] \in DigitSet

\* C15: a returned DateRange has both ends absent, or both in YYYY-MM-DD form
\* with start not after end.
C15_RangeWellFormed ==
  (pc = "returned") =>
    \/ (dateRange.start = null /\ dateRange.end = null)
    \/ /\ dateRange.start # null
       /\ dateRange.end # null
       /\ IsYMD(dateRange.start)
       /\ IsYMD(dateRange.end)
       /\ \/ dateRange.start = dateRange.end
          \/ \E i \in {1, 2, 3, 4, 6, 7, 9, 10} :
               /\ \A j \in 1..(i - 1) : dateRange.start[j] = dateRange.end[j]
               /\ DigitValue(dateRange.start[i]) < DigitValue(dateRange.end[i])

\* the transactional cues: how much, spent, received, will pay
TransactionalCues ==
  { <<"q","u","a","n","t","o">>, <<"g","a","s","t","e","i">>, <<"r","e","c","e","b","i">>, <<"p","a","g","a","r","e","i">> }

\* the insight cues: summary, financial health, how is
InsightCues ==
  { <<"r","e","s","u","m","o">>, <<"s","a","ú","d","e"," ","f","i","n","a","n","c","e","i","r","a">>, <<"c","o","m","o"," ","e","s","t","á">> }

HasCue(query, cues) == \E cue \in cues : includes(toLowerCase(query), cue)

\* C16: on the fallback path, a query with a transactional cue and the phrase
\* for last month gets the predicate type = 'transacional' AND date >= first
\* day AND date <= last day of the month before the reference date, and a
\* reply-length target whose max is 140.
C16_LastMonthScenario ==
  (/\ ClassificationFailed
   /\ HasCue(userQuery, TransactionalCues)
   /\ HasCue(userQuery, {<<"m","ê","s"," ","p","a","s","s","a","d","o">>})) =>
    LET ref == Civil(currentDate.dn)
        m == IF ref.month = 1 THEN 12 ELSE ref.month - 1
        y == IF ref.month = 1 THEN ref.year - 1 ELSE ref.year
    IN /\ ~filters.threw
       /\ filters.whereClause =
            <<"t","y","p","e"," ","="," ","'","t","r","a","n","s","a","c","i","o","n","a","l","'">>
              \o <<" ","A","N","D"," ","d","a","t","e"," ",">","="," ","'">> \o IsoDate(y, m, 1)
              \o <<"'"," ","A","N","D"," ","d","a","t","e"," ","<","="," ","'">> \o IsoDate(y, m, TrueDaysInMonth(y, m))
              \o <<"'">>
       /\ target.max = 140

\* C17: on the fallback path, a query without transactional cue, insight cue
\* or temporal word is classified educacao, its predicate is the category
\* equality alone, and its reply-length target is (200, 500).
C17_EducationalScenario ==
  (/\ ClassificationFailed
   /\ ~HasCue(userQuery, TransactionalCues)
   /\ ~HasCue(userQuery, InsightCues)
   /\ ~HasCue(userQuery, hasTemporalWords)) =>
    /\ intent.type = JsString(<<"e","d","u","c","a","c","a","o">>)
    /\ ~filters.threw
    /\ filters.whereClause = <<"t","y","p","e"," ","="," ","'","e","d","u","c","a","c","a","o","'">>
    /\ target.min = 200
    /\ target.max = 500

C17_Witness ==
  /\ classification.threw
  /\ pc = "awaitEmbedding"
  /\ userQuery = <<"O"," ","q","u","e"," ","é"," ","C","D","I","?">>
  /\ filters.whereClause = <<"t","y","p","e"," ","="," ","'","e","d","u","c","a","c","a","o","'">>
  /\ target.min = 200

\* a searchChunks call that has finished without a fault of the database
\* (a rejected connect or a rejected query), begun when the table existed
SearchSettled(p) ==
  /\ procs[p].op = "searchChunks"
  /\ procs[p].pc \in {"done", "failed"}
  /\ procs[p].tableAtStart
  /\ procs[p].error \notin {InitError, SearchError}

\* C18: the outcome of a search step does not depend on the interleaving: a
\* search begun when the table exists, which run alone returns the rows of
\* the table, returns them whatever other requests and initLanceDB or
\* closeLanceDB calls run meanwhile (it neither fails nor returns no row).
C18_SearchIndependent ==
  \A p \in Procs :
    SearchSettled(p) => procs[p].pc = "done" /\ procs[p].result # {}

\* C19: a call of insertChunks with an invalid chunk in its batch never
\* reaches createTable, add or the index steps and never ends successfully,
\* and no chunk of its batch is among the rows of the table.
C19_ValidationAtomic ==
  \A p \in Procs :
    (procs[p].op = "insertChunks" /\ procs[p].batch \in InvalidBatches) =>
      /\ procs[p].pc \notin {"createTable", "add", "indexDate", "indexType", "done"}
      /\ IdsOf(procs[p].batch) \cap disk.rows = {}

C19_Witness ==
  \E p \in Procs :
    /\ procs[p].op = "insertChunks"
    /\ procs[p].batch \in InvalidBatches
    /\ validateChunk(procs[p].batch[1]) = "valid"
    /\ procs[p].pc = "failed"
    /\ procs[p].error = "Data inválida"
    /\ db = "Database"
    /\ ~disk.exists

\* the first balanced object of content: from the first "{" to the first "}"
\* after it (a member list contains no brace)
firstBalancedObject(content) ==
  LET opens == {i \in 1..Len(content) : content[i] = "{"}
      first == CHOOSE i \in opens : \A j \in opens : i <= j
      closes == {i \in 1..Len(content) : content[i] = "}" /\ i > first}
      last == CHOOSE i \in closes : \A j \in closes : i <= j
  IN IF opens = {} THEN null
     ELSE IF closes = {} THEN null
     ELSE SubSeq(content, first, last)

\* C20: whenever the response of the classification service contains a
\* well-formed Intent object surrounded by other text, the parsed Intent is
\* that first object and the fallback is not taken.
C20_FirstBalancedObject ==
  (/\ pc \notin {"idle", "awaitClassification"}
   /\ ~classification.threw
   /\ classification.content # null
   /\ firstBalancedObject(classification.content) # null
   /\ JSONparse(firstBalancedObject(classification.content)).ok) =>
    intent = JSONparse(firstBalancedObject(classification.content)).value

\* the largest bound the lists of the model can exceed: a bound that does
\* not grow with the number of texts is below the length of some list
ParallelismBound == MaxTexts - 1

\* the list returned has one embedding per text, the one of the call made
\* for the text at the same index, in whatever order the calls settled
OneEmbeddingPerText ==
  batchCall.pc = "returned" =>
    /\ Len(batchCall.embeddings) = Len(batchCall.texts)
    /\ \A i \in 1..Len(batchCall.texts) :
         /\ batchCall.embeddings[i] = batchCall.responses[i]
         /\ batchCall.embeddings[i] # undefined

\* C21: the embedding calls of generateEmbeddingsBatch in flight at the same
\* time never exceed a fixed bound that does not grow with the number of
\* texts, and the returned list has one embedding per text in input order.
C21_BoundedParallelism ==
  /\ Cardinality(batchCall.pending) <= ParallelismBound
  /\ OneEmbeddingPerText

\* both callers are in insertChunks with valid batches, begun when no table
\* existed
TwoInsertsWithoutTable ==
  \A p \in Procs :
    /\ procs[p].op = "insertChunks"
    /\ procs[p].batch \in ValidBatches
    /\ ~procs[p].tableAtStart

\* when both calls have returned successfully, the module's table handle is
\* set and the table holds the chunks of both batches
BothBatchesStored ==
  (\A p \in Procs : procs[p].pc = "done") =>
    /\ table = "Table"
    /\ \A p \in Procs : IdsOf(procs[p].batch) \subseteq disk.rows

\* C22: of two insertChunks calls with valid batches that start while no
\* table exists, only one calls createTable (they are never both awaiting
\* db.createTable), and when both return successfully the chunks of both
\* batches are in the table the module's table handle refers to.
C22_TableCreatedOnce ==
  TwoInsertsWithoutTable =>
    /\ ~(\A p \in Procs : procs[p].pc = "createTable")
    /\ BothBatchesStored

====
